---- MODULE Spec2Model ----
(***************************************************************************)
(* A model of backend/main.py: the document search API (ingest, lexical    *)
(* search, semantic search, document listing and RAG chat) together with   *)
(* the collaborators it calls (the MongoDB collection and its search       *)
(* indexes, the embedding model, the generation backend).                  *)
(*                                                                         *)
(* Text is a sequence of one-character strings.  Every handler is one      *)
(* action: the handler's code is a pure operator from the request, the     *)
(* store and the outcome of each collaborator call to the response and the *)
(* ordered list of collaborator calls the request made.                    *)
(*                                                                         *)
(* Spec: retrieval, listing and manual ingest in every deployment.         *)
(* SpecAll: the whole API, audio and health included, in one deployment.   *)
(* SpecStocked: search and listing on a collection of more than a page.    *)
(* SpecServer: the event loop scheduling the requests of several clients.  *)
(***************************************************************************)
EXTENDS Integers, Sequences, FiniteSets

VARIABLES
    documents,          \* db.documents: the collection, in insertion order
    searchEnabled,      \* mongot search nodes deployed ($search, $vectorSearch)
    vectorIndexStatus,  \* status of search index "vector_index", or "none"
    textIndex,          \* a classic text index exists ($text queries work)
    temp_files,         \* temporary audio files left on disk by the handlers
    LLM_PROVIDER,       \* process configuration, fixed at start-up
    openai_client,      \* TRUE iff the OpenAI client was constructed
    request,            \* the request served last
    response,           \* its response
    calls,              \* the collaborator calls it made, in order
    loop,               \* the task the event-loop thread is running, 0 if none
    tasks               \* per client connection: the request in progress

vars == <<documents, temp_files, searchEnabled, vectorIndexStatus, textIndex,
          LLM_PROVIDER, openai_client, request, response, calls, loop, tasks>>

\* the event loop of the server process and the tasks it schedules
server == <<loop, tasks>>

env == <<searchEnabled, vectorIndexStatus, textIndex, LLM_PROVIDER, openai_client>>

----------------------------------------------------------------------------
(* Bounds of the model *)

MaxDocs == 2        \* documents ever inserted, and temporary files ever left behind
MaxQLen == 2        \* characters in a query
MaxLimit == 2       \* largest limit / max_context_docs requested
EmbDim == 7         \* components of an embedding (384 in the deployment)
MaxStock == 11      \* documents a deployment holds at start-up (SpecStocked)
MaxClients == 2     \* client connections open at the same time (SpecServer)

\* characters of a query: a blank and a letter
Chars == {" ", "a"}
Text(n) == UNION {[1..k -> Chars] : k \in 0..n}
Queries == Text(MaxQLen)
Limits == 1..MaxLimit

SearchLimit == 10   \* {"$limit": 10} of the $search pipeline
ListLimit == 10     \* .limit(10) of the document listing

\* message classes of an exception raised by the store for a reason of its own
\* (a lost connection, a server error); "" is a call that does not fail
ErrTexts == {"SearchNotEnabled", "$vectorSearch", "network timeout"}
\* one entry per store call of a request, in call order
Faults == {<<"", "">>}
          \cup {<<e, "">> : e \in ErrTexts}
          \cup {<<"", e>> : e \in ErrTexts}
          \cup {<<e, e>> : e \in ErrTexts}
\* at most one failing call: for a request that ends at its first failure
SingleFaults == {<<"", "">>}
                \cup {<<e, "">> : e \in ErrTexts}
                \cup {<<"", e>> : e \in ErrTexts}
\* the same for a request that makes one store call
Faults1 == {<<a, "">> : a \in {""} \cup ErrTexts}

\* documents a client submits
DocInputs == {[title |-> <<"a">>, body |-> <<"b">>, tags |-> << <<"a">> >>],
              [title |-> <<"b">>, body |-> <<"b">>, tags |-> <<>>]}

\* ChatRequest.system_prompt: empty (None) or a custom prompt
SystemPrompts == {<<>>, <<"s">>}

----------------------------------------------------------------------------
(* Python built-ins used by the handlers *)

Take(s, n) == SubSeq(s, 1, IF n < Len(s) THEN n ELSE Len(s))

RECURSIVE lstrip(_)
lstrip(s) ==
    IF s = <<>> THEN <<>>
    ELSE IF Head(s) = " " THEN lstrip(Tail(s)) ELSE s

RECURSIVE rstrip(_)
rstrip(s) ==
    IF s = <<>> THEN <<>>
    ELSE IF s[Len(s)] = " " THEN rstrip(SubSeq(s, 1, Len(s) - 1)) ELSE s

\* mutant: the text is tested as it came, without stripping
strip_nothing(s) == s

\* str.strip(): leading and trailing whitespace removed
strip(s) == rstrip(lstrip(s))

\* " ".join(parts)
RECURSIVE join(_)
join(parts) ==
    IF parts = <<>> THEN <<>>
    ELSE IF Len(parts) = 1 THEN parts[1]
    ELSE parts[1] \o <<" ">> \o join(Tail(parts))

\* number of occurrences of character c in s
RECURSIVE count(_, _)
count(s, c) ==
    IF s = <<>> THEN 0
    ELSE (IF Head(s) = c THEN 1 ELSE 0) + count(Tail(s), c)

\* str(ObjectId)
str(oid) == <<"oid", oid>>

----------------------------------------------------------------------------
(* The embedding model: text -> vector of EmbDim numbers, deterministic.   *)
(* The stand-in counts the letters of the text; the third component is a   *)
(* constant so that no embedding is the zero vector.                       *)

encode(text) ==
    [i \in 1..EmbDim |->
        IF i = 1 THEN count(text, "a")
        ELSE IF i = 2 THEN count(text, "b")
        ELSE IF i = 3 THEN 1
        ELSE 0]

RECURSIVE dotUpTo(_, _, _)
dotUpTo(u, v, n) == IF n = 0 THEN 0 ELSE u[n] * v[n] + dotUpTo(u, v, n - 1)
dot(u, v) == dotUpTo(u, v, Len(u))

\* vectorSearchScore for "similarity": "cosine": a number that grows with the
\* cosine of the angle between the two vectors (all components are >= 0),
\* in thousandths of the squared cosine.
vectorSearchScore(u, v) == (1000 * dot(u, v) * dot(u, v)) \div (dot(u, u) * dot(v, v))

----------------------------------------------------------------------------
(* The store: db.documents *)

\* stable sort by descending score
RECURSIVE InsertByScore(_, _)
InsertByScore(d, s) ==
    IF s = <<>> THEN <<d>>
    ELSE IF Head(s).score >= d.score THEN <<Head(s)>> \o InsertByScore(d, Tail(s))
    ELSE <<d>> \o s

RECURSIVE SortByScore(_)
SortByScore(s) ==
    IF s = <<>> THEN <<>>
    ELSE InsertByScore(s[Len(s)], SortByScore(SubSeq(s, 1, Len(s) - 1)))

RECURSIVE SelectSeq2(_, _)
SelectSeq2(s, keep) ==
    IF s = <<>> THEN <<>>
    ELSE (IF Head(s)._id \in keep THEN <<Head(s)>> ELSE <<>>) \o SelectSeq2(Tail(s), keep)

\* the words of a text: here every non-blank character is a word
Words(text) == {text[i] : i \in 1..Len(text)} \ {" "}

\* the text of the paths ["title", "body", "tags"] of a stored document
Searchable(doc) == doc.title \o <<" ">> \o doc.body \o <<" ">> \o join(doc.tags)

\* relevance of a document for a text query: occurrences of the query's words
RECURSIVE HitsOf(_, _)
HitsOf(ws, text) ==
    IF ws = {} THEN 0
    ELSE LET w == CHOOSE x \in ws : TRUE
         IN count(text, w) + HitsOf(ws \ {w}, text)

Relevance(q, doc) == HitsOf(Words(q), Searchable(doc))

\* outcome of one store call: a result, or an exception with its message
Ok(docs) == [ok |-> TRUE, err |-> "", docs |-> docs]
Raise(msg) == [ok |-> FALSE, err |-> msg, docs |-> <<>>]
\* a cursor that raises while it is iterated: docs are those it had yielded
RaiseAfter(msg, docs) == [ok |-> FALSE, err |-> msg, docs |-> docs]

\* mutant: the newest stored document is replaced instead of a new one added
insert_one_replacing(coll, doc_dict) ==
    IF coll = <<>>
    THEN <<[_id |-> 1, title |-> doc_dict.title, body |-> doc_dict.body,
            tags |-> doc_dict.tags, embedding |-> doc_dict.embedding]>>
    ELSE [coll EXCEPT ![Len(coll)] =
            [_id |-> Len(coll), title |-> doc_dict.title, body |-> doc_dict.body,
             tags |-> doc_dict.tags, embedding |-> doc_dict.embedding]]

\* mutant: the insert is issued twice
insert_one_twice(coll, doc_dict) ==
    coll \o <<[_id |-> Len(coll) + 1, title |-> doc_dict.title, body |-> doc_dict.body,
               tags |-> doc_dict.tags, embedding |-> doc_dict.embedding],
              [_id |-> Len(coll) + 2, title |-> doc_dict.title, body |-> doc_dict.body,
               tags |-> doc_dict.tags, embedding |-> doc_dict.embedding]>>

\* documents.insert_one(doc_dict): the store assigns the next _id
insert_one(coll, doc_dict) ==
    Append(coll,
           IF "source" \in DOMAIN doc_dict
           THEN [_id |-> Len(coll) + 1,
                 title |-> doc_dict.title,
                 body |-> doc_dict.body,
                 tags |-> doc_dict.tags,
                 source |-> doc_dict.source,
                 audio_filename |-> doc_dict.audio_filename,
                 detected_language |-> doc_dict.detected_language,
                 language |-> doc_dict.language,
                 embedding |-> doc_dict.embedding]
           ELSE [_id |-> Len(coll) + 1,
                 title |-> doc_dict.title,
                 body |-> doc_dict.body,
                 tags |-> doc_dict.tags,
                 embedding |-> doc_dict.embedding])

\* documents.aggregate([{$search: {index: "default", text: {query: q, path: ...}}},
\*                      {$project: {_id, title, body, tags, score: searchScore}},
\*                      {$limit: 10}])
\* A call that fails fails at once, or (yielded > 0) while the cursor is read.
aggregate_search(q, fault, yielded) ==
    IF ~searchEnabled THEN Raise(IF fault # "" THEN fault ELSE "SearchNotEnabled")
    ELSE LET scored == [i \in 1..Len(documents) |->
                          [_id |-> documents[i]._id,
                           title |-> documents[i].title,
                           body |-> documents[i].body,
                           tags |-> documents[i].tags,
                           score |-> Relevance(q, documents[i])]]
             hits == {scored[i]._id : i \in {j \in 1..Len(scored) : scored[j].score > 0}}
             matched == Take(SortByScore(SelectSeq2(scored, hits)), SearchLimit)
         IN IF fault # "" THEN RaiseAfter(fault, Take(matched, yielded))
            ELSE Ok(matched)

\* documents.find({$text: {$search: q}}, {score: textScore}).sort(score)
find_text(q, fault) ==
    IF fault # "" THEN Raise(fault)
    ELSE IF ~textIndex THEN Raise("text index required for $text query")
    ELSE LET scored == [i \in 1..Len(documents) |->
                          [_id |-> documents[i]._id,
                           title |-> documents[i].title,
                           body |-> documents[i].body,
                           tags |-> documents[i].tags,
                           embedding |-> documents[i].embedding,
                           score |-> Relevance(q, documents[i])]]
             hits == {scored[i]._id : i \in {j \in 1..Len(scored) : scored[j].score > 0}}
         IN Ok(SortByScore(SelectSeq2(scored, hits)))

\* documents.list_search_indexes()
list_search_indexes(fault) ==
    IF fault # "" THEN Raise(fault)
    ELSE IF ~searchEnabled THEN Raise("SearchNotEnabled")
    ELSE Ok(<<[name |-> "default", status |-> "READY"]>>
            \o (IF vectorIndexStatus = "none" THEN <<>>
                ELSE <<[name |-> "vector_index", status |-> vectorIndexStatus]>>))

\* documents.aggregate([{$vectorSearch: {index: "vector_index", path: "embedding",
\*                        queryVector, numCandidates, limit}},
\*                      {$project: {_id, title, body, tags, score: vectorSearchScore}}])
\* An index that is missing or not yet queryable matches nothing.
aggregate_vectorSearch(queryVector, numCandidates, limit, fault) ==
    IF fault # "" THEN Raise(fault)
    ELSE IF ~searchEnabled THEN Raise("SearchNotEnabled")
    ELSE IF vectorIndexStatus # "READY" THEN Ok(<<>>)
    ELSE LET scored == [i \in 1..Len(documents) |->
                          [_id |-> documents[i]._id,
                           title |-> documents[i].title,
                           body |-> documents[i].body,
                           tags |-> documents[i].tags,
                           score |-> vectorSearchScore(queryVector, documents[i].embedding)]]
         IN Ok(Take(Take(SortByScore(scored), numCandidates), limit))

\* documents.find().sort("_id", -1).limit(10)
RECURSIVE Reverse(_)
Reverse(s) == IF s = <<>> THEN <<>> ELSE Reverse(Tail(s)) \o <<Head(s)>>

\* mutant: the listing has no limit
find_recent_unbounded(fault) ==
    IF fault # "" THEN Raise(fault)
    ELSE Ok(Reverse(documents))

find_recent(fault) ==
    IF fault # "" THEN Raise(fault)
    ELSE Ok(Take(Reverse(documents), ListLimit))

----------------------------------------------------------------------------
(* Responses *)

\* raise HTTPException(status_code, detail)
HTTPException(status_code, detail) == [status |-> status_code, detail |-> detail]

\* an exception that leaves the handler uncaught: the server answers 500
InternalServerError(msg) == [status |-> 500, detail |-> "Internal Server Error"]

\* mutant: the stored document is returned as it is, embedding included
DocumentResponse_stored(doc) ==
    [id |-> str(doc._id), title |-> doc.title, body |-> doc.body, tags |-> doc.tags,
     embedding |-> IF "embedding" \in DOMAIN doc THEN doc.embedding ELSE <<>>,
     mongodb_operation |-> <<>>]

\* DocumentResponse(id=str(doc["_id"]), title=..., body=..., tags=...)
\* Optional fields are sequences of length at most one.
DocumentResponse(doc) ==
    [id |-> str(doc._id), title |-> doc.title, body |-> doc.body, tags |-> doc.tags,
     mongodb_operation |-> <<>>]

\* one entry of the request's log of collaborator calls
Call(op, outcome) ==
    [op |-> op, ok |-> outcome.ok, n |-> Len(outcome.docs), err |-> outcome.err]

\* the entry of an aggregation, with the pipeline that was executed
Executed(op, outcome, pipeline) ==
    [op |-> op, ok |-> outcome.ok, n |-> Len(outcome.docs), err |-> outcome.err,
     pipeline |-> pipeline]

\* "SearchNotEnabled" in error_msg or "31082" in error_msg or "$vectorSearch" in error_msg
VectorSearchNotEnabled(error_msg) == error_msg \in {"SearchNotEnabled", "$vectorSearch"}

----------------------------------------------------------------------------
(* check_vector_index_exists() -> (exists, status) *)

RECURSIVE FindIndex(_, _)
FindIndex(indexes, name) ==
    IF indexes = <<>> THEN <<>>
    ELSE IF Head(indexes).name = name THEN <<Head(indexes)>>
    ELSE FindIndex(Tail(indexes), name)

\* "SearchNotEnabled" in error_msg or "31082" in error_msg or "not found" in error_msg.lower()
ProbeNotEnabled(error_msg) == error_msg = "SearchNotEnabled"

\* mutant: a probe that cannot list the indexes reports the index as existing
check_vector_index_exists_optimistic(fault) ==
    LET listed == list_search_indexes(fault)
        idx == FindIndex(listed.docs, "vector_index")
    IN [exists |-> ~listed.ok \/ idx # <<>>,
        status |-> IF listed.ok /\ idx # <<>> THEN idx[1].status ELSE "None",
        calls |-> <<Call("list_search_indexes", listed)>>]

check_vector_index_exists(fault) ==
    LET listed == list_search_indexes(fault)
        idx == FindIndex(listed.docs, "vector_index")
    IN [exists |-> listed.ok /\ idx # <<>>,
        status |-> IF listed.ok
                   THEN (IF idx # <<>> THEN idx[1].status ELSE "None")
                   ELSE (IF ProbeNotEnabled(listed.err) THEN "SearchNotEnabled" ELSE "None"),
        calls |-> <<Call("list_search_indexes", listed)>>]

----------------------------------------------------------------------------
(* GET /search *)

\* try: the $search aggregation answered
search_primary(q, primary) ==
    LET results == [i \in 1..Len(primary.docs) |-> DocumentResponse(primary.docs[i])]
        scores == [i \in 1..Len(primary.docs) |-> primary.docs[i].score]
        pipeline == [aggregate |-> "$search", q |-> q, limit |-> SearchLimit]
        mongodb_op == [operation |-> "aggregate",
                       query |-> pipeline,
                       result |-> [count |-> Len(results),
                                   documents_found |-> Len(results),
                                   search_scores |-> scores,
                                   query |-> q,
                                   search_type |-> "full_text_search",
                                   index_used |-> "default (Atlas Search)"],
                       documents_affected |-> Len(results),
                       index_used |-> "text_search_index"]
    IN [response |-> [status |-> 200,
                      query |-> q,
                      results |-> results,
                      total |-> Len(results),
                      mongodb_query |-> pipeline,
                      search_type |-> "full_text_search",
                      index_used |-> "text_search_index",
                      mongodb_operation |-> <<mongodb_op>>],
        calls |-> <<Call("aggregate $search", primary)>>]

\* the response built from the $text cursor
fallback_response(q, cursor, log) ==
    LET results == [i \in 1..Len(cursor.docs) |-> DocumentResponse(cursor.docs[i])]
        scores == [i \in 1..Len(cursor.docs) |-> cursor.docs[i].score]
        fallback_query == [find |-> "$text", q |-> q]
        mongodb_op == [operation |-> "find",
                       query |-> fallback_query,
                       result |-> [count |-> Len(results),
                                   documents_found |-> Len(results),
                                   search_scores |-> scores,
                                   query |-> q,
                                   search_type |-> "text_fallback",
                                   index_used |-> "text index (fallback)"],
                       documents_affected |-> Len(results),
                       index_used |-> "title_text_body_text_tags_text"]
    IN [response |-> [status |-> 200,
                      query |-> q,
                      results |-> results,
                      total |-> Len(results),
                      mongodb_query |-> fallback_query,
                      search_type |-> "text_fallback",
                      index_used |-> "title_text_body_text_tags_text",
                      mongodb_operation |-> <<mongodb_op>>],
        calls |-> log]

\* mutant: the fallback keeps the labels of the primary strategy
search_fallback_mislabelled(q, primary, fault) ==
    LET cursor == find_text(q, fault)
        log == <<Call("aggregate $search", primary), Call("find $text", cursor)>>
        out == fallback_response(q, cursor, log)
    IN
    IF ~cursor.ok
    THEN [response |-> InternalServerError(cursor.err), calls |-> log]
    ELSE [out EXCEPT !.response.search_type = "full_text_search",
                     !.response.mongodb_operation[1].operation = "aggregate"]

\* mutant: the documents read from the primary cursor before it failed are kept
search_fallback_mixed(q, primary, fault) ==
    LET cursor == find_text(q, fault)
        log == <<Call("aggregate $search", primary), Call("find $text", cursor)>>
    IN
    IF ~cursor.ok
    THEN [response |-> InternalServerError(cursor.err), calls |-> log]
    ELSE fallback_response(q, [cursor EXCEPT !.docs = primary.docs \o cursor.docs], log)

\* except Exception: the query is issued again as a $text find
search_fallback(q, primary, fault) ==
    LET cursor == find_text(q, fault)
        log == <<Call("aggregate $search", primary), Call("find $text", cursor)>>
    IN
    IF ~cursor.ok
    THEN [response |-> InternalServerError(cursor.err), calls |-> log]
    ELSE fallback_response(q, cursor, log)

search_documents(params, faults, yielded) ==
    LET q == params.q IN
    IF strip(q) = <<>>
    THEN [response |-> HTTPException(400, "Query parameter 'q' is required"),
          calls |-> <<>>]
    ELSE LET primary == aggregate_search(q, faults[1], yielded)
         IN IF primary.ok
            THEN search_primary(q, primary)
            ELSE search_fallback(q, primary, faults[2])

----------------------------------------------------------------------------
(* GET /search/semantic *)

\* query_embedding[:5] + [f"... (remaining {len(query_embedding) - 5} dimensions)"]
query_vector_sample(query_embedding) ==
    Take(query_embedding, 5) \o <<[remaining |-> Len(query_embedding) - 5]>>

\* mutant: the query asks for as many candidates as results
vectorSearchStage_exact(queryVector, k) ==
    [index |-> "vector_index", path |-> "embedding", queryVector |-> queryVector,
     numCandidates |-> k, limit |-> k]

\* the $vectorSearch stage of a pipeline
vectorSearchStage(queryVector, k) ==
    [index |-> "vector_index", path |-> "embedding", queryVector |-> queryVector,
     numCandidates |-> k * 10, limit |-> k]

\* embedding_model.encode(text), as an entry of the request's log
Encoded == [op |-> "encode", ok |-> TRUE, n |-> 1, err |-> ""]

\* the SearchResponse built from the documents the aggregation returned
semantic_response(params, query_embedding, docs, log) ==
    LET pipeline_display ==
            vectorSearchStage(query_vector_sample(query_embedding), params.limit)
        top_results == [i \in 1..Len(docs) |-> DocumentResponse(docs[i])]
        scores == [i \in 1..Len(docs) |-> docs[i].score]
        mongodb_op == [operation |-> "aggregate",
                       query |-> [aggregate |-> pipeline_display],
                       result |-> [count |-> Len(top_results),
                                   documents_found |-> Len(top_results),
                                   vector_search_scores |-> scores,
                                   query |-> params.q,
                                   search_type |-> "vector_search",
                                   index_used |-> "vector_index",
                                   embedding_dimensions |-> Len(query_embedding)],
                       documents_affected |-> Len(top_results),
                       index_used |-> "vector_index"]
    IN [response |-> [status |-> 200,
                      query |-> params.q,
                      results |-> top_results,
                      total |-> Len(top_results),
                      mongodb_query |-> [aggregate |-> pipeline_display],
                      search_type |-> "vector",
                      index_used |-> "vector_index",
                      mongodb_operation |-> <<mongodb_op>>],
        calls |-> log]

\* every stored document scored against the query vector, best first, first k
BruteForce(queryVector, k) ==
    Take(SortByScore([i \in 1..Len(documents) |->
                        [_id |-> documents[i]._id,
                         title |-> documents[i].title,
                         body |-> documents[i].body,
                         tags |-> documents[i].tags,
                         score |-> vectorSearchScore(queryVector, documents[i].embedding)]]),
         k)

\* mutant: without the index, a request that does not ask for strict mode is
\* answered by scoring every document in the handler
semantic_fallback(params, probe, log) ==
    IF params.strict
    THEN [response |-> HTTPException(503, <<"MongoDB Vector Search is not available", probe.status>>),
          calls |-> log]
    ELSE semantic_response(params, encode(params.q),
                           BruteForce(encode(params.q), params.limit), log)

\* if not vector_index_available: raise HTTPException(503)
semantic_unavailable(params, probe, log) ==
    [response |-> HTTPException(503, <<"MongoDB Vector Search is not available", probe.status>>),
     calls |-> log]

\* mutant: a query that matches nothing is answered 404
semantic_found_or_404(params, query_embedding, found, log) ==
    IF found.docs = <<>>
    THEN [response |-> HTTPException(404, "No documents found"), calls |-> log]
    ELSE semantic_response(params, query_embedding, found.docs, log)

\* mutant: the telemetry counts the documents asked for, not those returned
semantic_found_miscounted(params, query_embedding, found, log) ==
    [semantic_response(params, query_embedding, found.docs, log)
        EXCEPT !.response.mongodb_operation[1].documents_affected = params.limit]

\* mutant: the handler returns the documents in the reverse of the store's order
semantic_found_reversed(params, query_embedding, found, log) ==
    semantic_response(params, query_embedding, Reverse(found.docs), log)

\* the aggregation answered: the response is assembled
semantic_found(params, query_embedding, found, log) ==
    semantic_response(params, query_embedding, found.docs, log)

\* mutant: a failed aggregation is answered as a search that matched nothing
semantic_failed_as_empty(found, log) ==
    [response |-> [status |-> 200, query |-> <<>>, results |-> <<>>, total |-> 0,
                   search_type |-> "vector", index_used |-> "vector_index",
                   mongodb_operation |-> <<>>],
     calls |-> log]

\* except Exception: 503 if the message names the capability, else 500
semantic_failed(found, log) ==
    IF VectorSearchNotEnabled(found.err)
    THEN [response |-> HTTPException(503, <<"MongoDB Vector Search is not enabled", found.err>>),
          calls |-> log]
    ELSE [response |-> HTTPException(500, <<"MongoDB Vector Search failed", found.err>>),
          calls |-> log]

semantic_search(params, faults) ==
    LET q == params.q
        limit == params.limit
    IN
    IF strip(q) = <<>>
    THEN [response |-> HTTPException(400, "Query parameter 'q' is required"),
          calls |-> <<>>]
    ELSE
    LET query_embedding == encode(q)
        probe == check_vector_index_exists(faults[1])
        log1 == <<Encoded>> \o probe.calls
    IN
    IF ~probe.exists
    THEN semantic_unavailable(params, probe, log1)
    ELSE
    LET actual_pipeline == vectorSearchStage(query_embedding, limit)
        found == aggregate_vectorSearch(actual_pipeline.queryVector,
                                        actual_pipeline.numCandidates,
                                        actual_pipeline.limit, faults[2])
        log2 == log1 \o <<Executed("aggregate $vectorSearch", found, actual_pipeline)>>
    IN IF found.ok
       THEN semantic_found(params, query_embedding, found, log2)
       ELSE semantic_failed(found, log2)

----------------------------------------------------------------------------
(* GET /documents *)

get_documents(faults) ==
    LET docs == find_recent(faults[1])
        log == <<Call("find", docs)>>
    IN
    IF ~docs.ok
    THEN [response |-> InternalServerError(docs.err), calls |-> log]
    ELSE LET mongodb_op == [operation |-> "find",
                            query |-> [find |-> "all", sort |-> "_id desc", limit |-> ListLimit],
                            result |-> [count |-> Len(docs.docs), limit |-> ListLimit],
                            documents_affected |-> Len(docs.docs)]
             result_docs == [idx \in 1..Len(docs.docs) |->
                               [DocumentResponse(docs.docs[idx]) EXCEPT
                                  !.mongodb_operation =
                                     IF idx = 1 THEN <<mongodb_op>> ELSE <<>>]]
         IN [response |-> [status |-> 200, list |-> result_docs], calls |-> log]

----------------------------------------------------------------------------
(* POST /documents *)

\* encoder: "ok", or the exception embedding_model.encode raises
Encoders == {"ok", "encode error"}

create_document(document, faults, encoder) ==
    LET text_for_embedding ==
            document.title \o <<" ">> \o document.body \o <<" ">> \o join(document.tags)
        embedding == encode(text_for_embedding)
        doc_dict == [title |-> document.title, body |-> document.body,
                     tags |-> document.tags, embedding |-> embedding]
        log == <<[op |-> "encode", ok |-> TRUE, n |-> 1, err |-> ""],
                 [op |-> "insert_one", ok |-> faults[1] = "", n |-> 0, err |-> faults[1]]>>
    IN
    IF encoder # "ok"
    THEN [response |-> InternalServerError(encoder),
          calls |-> <<[op |-> "encode", ok |-> FALSE, n |-> 0, err |-> encoder]>>,
          documents |-> documents]
    ELSE IF faults[1] # ""
    THEN [response |-> InternalServerError(faults[1]), calls |-> log, documents |-> documents]
    ELSE LET stored == insert_one(documents, doc_dict)
             inserted_id == stored[Len(stored)]._id
             mongodb_op == [operation |-> "insertOne",
                            query |-> [insertOne |->
                                         [title |-> document.title,
                                          body |-> document.body,
                                          tags |-> document.tags,
                                          embedding |-> Take(embedding, 5)
                                                        \o <<[total |-> Len(embedding)]>>,
                                          embedding_dimensions |-> Len(embedding),
                                          source |-> "manual"]],
                            result |-> [inserted_id |-> str(inserted_id),
                                        acknowledged |-> TRUE],
                            documents_affected |-> 1]
         IN [response |-> [status |-> 200,
                           id |-> str(inserted_id),
                           title |-> document.title,
                           body |-> document.body,
                           tags |-> document.tags,
                           mongodb_operation |-> <<mongodb_op>>],
             calls |-> log,
             documents |-> stored]

----------------------------------------------------------------------------
(* Audio: POST /speech-to-text and POST /documents/from-audio *)

TitleLimit == 50    \* transcribed_text[:50] as the default title
BodyDisplayLimit == 100   \* body[:100] in the displayed insert
PreviewLimit == 200       \* body_preview, transcription_preview

\* what the upload and the Whisper model do during one request:
\*   upload:  "ok", or the copy into the temporary file fails ("copy failed"),
\*            or no temporary file can be created ("no temp file")
\*   whisper: "ok" or "error"; text and language are what it heard
Heard ==
    {[upload |-> "ok", whisper |-> "ok", text |-> <<"b">>, language |-> <<"e", "n">>],
     [upload |-> "ok", whisper |-> "error", text |-> <<>>, language |-> <<>>],
     [upload |-> "copy failed", whisper |-> "ok", text |-> <<>>, language |-> <<>>],
     [upload |-> "no temp file", whisper |-> "ok", text |-> <<>>, language |-> <<>>]}

\* the form fields of POST /documents/from-audio; Optional fields are
\* sequences of length at most one
AudioForms ==
    {[filename |-> "a.wav", title |-> <<>>, tags |-> <<>>, language |-> <<>>],
     [filename |-> "a.wav", title |-> << <<"a">> >>, tags |-> << <<"a", ",", " ">> >>,
      language |-> << <<"e", "n">> >>]}

\* str.split(sep)
RECURSIVE split(_, _)
split(s, sep) ==
    IF \A i \in 1..Len(s) : s[i] # sep THEN <<s>>
    ELSE LET at == CHOOSE i \in 1..Len(s) : s[i] = sep /\ \A j \in 1..(i - 1) : s[j] # sep
         IN <<SubSeq(s, 1, at - 1)>> \o split(SubSeq(s, at + 1, Len(s)), sep)

\* [tag.strip() for tag in parts if tag.strip()]
RECURSIVE stripped_nonempty(_)
stripped_nonempty(parts) ==
    IF parts = <<>> THEN <<>>
    ELSE (IF strip(Head(parts)) # <<>> THEN <<strip(Head(parts))>> ELSE <<>>)
         \o stripped_nonempty(Tail(parts))

supported_languages ==
    {<<"d", "a">>, <<"n", "l">>, <<"e", "n">>, <<"f", "i">>, <<"f", "r">>,
     <<"d", "e">>, <<"h", "u">>, <<"i", "t">>, <<"n", "b">>, <<"p", "t">>,
     <<"r", "o">>, <<"r", "u">>, <<"e", "s">>, <<"s", "v">>, <<"t", "r">>}

\* one step of the request's log that has no store outcome
Step(op, ok, err) == [op |-> op, ok |-> ok, n |-> 0, err |-> err]

\* with tempfile.NamedTemporaryFile(delete=False): shutil.copyfileobj(...)
\* -> the files left on disk and the log entry
save_upload(heard) ==
    [ok |-> heard.upload = "ok",
     files |-> IF heard.upload = "no temp file" THEN 0 ELSE 1,
     calls |-> <<Step("tempfile", heard.upload = "ok",
                      IF heard.upload = "ok" THEN "" ELSE heard.upload)>>]

\* whisper_model.transcribe(temp_path, **transcribe_options)
whisper_transcribe(heard, language) ==
    [ok |-> heard.whisper = "ok",
     text |-> heard.text,
     language |-> IF language # <<>> /\ language[1] # <<>> THEN language
                  ELSE IF heard.language # <<>> THEN <<heard.language>> ELSE <<>>,
     calls |-> <<Step("transcribe", heard.whisper = "ok",
                      IF heard.whisper = "ok" THEN "" ELSE "transcription error")>>]

\* POST /speech-to-text
transcribe_audio(heard) ==
    LET saved == save_upload(heard)
        result == whisper_transcribe(heard, <<>>)
    IN
    IF ~saved.ok
    THEN [response |-> HTTPException(500, <<"Transcription failed", heard.upload>>),
          calls |-> saved.calls,
          temp_files |-> temp_files + saved.files]
    ELSE IF ~result.ok
    THEN [response |-> HTTPException(500, <<"Transcription failed", "transcription error">>),
          calls |-> saved.calls \o result.calls,
          temp_files |-> temp_files + saved.files]
    ELSE [response |-> [status |-> 200,
                        text |-> result.text,
                        language |-> IF result.language # <<>> THEN result.language[1]
                                     ELSE <<"unknown">>],
          calls |-> saved.calls \o result.calls \o <<Step("unlink", TRUE, "")>>,
          temp_files |-> temp_files + saved.files - 1]

\* except Exception as e: raise HTTPException(500, "Audio document creation failed")
audio_failed(msg, log, stored, files) ==
    [response |-> HTTPException(500, <<"Audio document creation failed", msg>>),
     calls |-> log,
     documents |-> stored,
     temp_files |-> files]

\* Steps 3 to 5 and the response: metadata, embedding, insert, read back
audio_store(form, result, log, faults) ==
    LET transcribed_text == result.text
        detected_language ==
            IF result.language # <<>> THEN result.language[1]
            ELSE IF form.language # <<>> /\ form.language[1] # <<>> THEN form.language[1]
            ELSE <<"unknown">>
        title == IF form.title # <<>> /\ form.title[1] # <<>> THEN form.title[1]
                 ELSE Take(transcribed_text, TitleLimit)
                      \o (IF Len(transcribed_text) > TitleLimit THEN <<"...">> ELSE <<>>)
        tags_list ==
            (IF form.tags # <<>> /\ form.tags[1] # <<>>
             THEN stripped_nonempty(split(form.tags[1], ","))
             ELSE <<>>)
            \o << <<"language:">> \o detected_language, <<"audio-transcription">> >>
        mongodb_language ==
            IF detected_language \in supported_languages THEN detected_language
            ELSE <<"none">>
        text_for_embedding ==
            title \o <<" ">> \o transcribed_text \o <<" ">> \o join(tags_list)
        embedding == encode(text_for_embedding)
        doc_dict == [title |-> title,
                     body |-> transcribed_text,
                     tags |-> tags_list,
                     source |-> "audio",
                     audio_filename |-> form.filename,
                     detected_language |-> detected_language,
                     language |-> mongodb_language,
                     embedding |-> embedding]
        insert_query ==
            [insertOne |->
               [title |-> title,
                body |-> Take(transcribed_text, BodyDisplayLimit) \o <<"...">>,
                tags |-> tags_list,
                embedding |-> [dimensions |-> Len(embedding)],
                source |-> "audio",
                audio_filename |-> form.filename,
                detected_language |-> detected_language]]
        log4 == log \o <<Encoded>>
        log5 == log4 \o <<Step("insert_one", faults[1] = "", faults[1])>>
        stored == insert_one(documents, doc_dict)
        inserted_doc == stored[Len(stored)]
        log6 == log5 \o <<Step("find_one", faults[2] = "", faults[2])>>
        workflow_steps ==
            <<[step |-> 1, name |-> "Upload Audio File", status |-> "completed",
               details |-> [filename |-> form.filename]],
              [step |-> 2, name |-> "Transcribe Audio to Text", status |-> "completed",
               details |-> [detected_language |-> detected_language,
                            transcription_length |-> Len(transcribed_text),
                            transcription_preview |->
                                Take(transcribed_text, PreviewLimit)
                                \o (IF Len(transcribed_text) > PreviewLimit
                                    THEN <<"...">> ELSE <<>>)]],
              [step |-> 3, name |-> "Prepare Document Metadata", status |-> "completed",
               details |-> [title |-> title, tags |-> tags_list,
                            mongodb_language |-> mongodb_language]],
              [step |-> 4, name |-> "Generate Embedding Vector", status |-> "completed",
               details |-> [embedding_dimensions |-> Len(embedding),
                            text_length |-> Len(text_for_embedding)]],
              [step |-> 5, name |-> "Insert into MongoDB", status |-> "completed",
               details |-> [inserted_id |-> str(inserted_doc._id),
                            acknowledged |-> TRUE,
                            document |->
                              [_id |-> str(inserted_doc._id),
                               title |-> inserted_doc.title,
                               body_preview |->
                                   Take(inserted_doc.body, PreviewLimit)
                                   \o (IF Len(inserted_doc.body) > PreviewLimit
                                       THEN <<"...">> ELSE <<>>),
                               body_length |-> Len(inserted_doc.body),
                               tags |-> inserted_doc.tags,
                               source |-> inserted_doc.source,
                               has_embedding |-> "embedding" \in DOMAIN inserted_doc,
                               embedding_dimensions |-> Len(inserted_doc.embedding)]]]>>
        mongodb_op == [operation |-> "insertOne",
                       query |-> insert_query,
                       result |-> [inserted_id |-> str(inserted_doc._id),
                                   acknowledged |-> TRUE,
                                   workflow_steps |-> workflow_steps],
                       documents_affected |-> 1]
    IN
    IF faults[1] # ""
    THEN audio_failed(faults[1], log5, documents, temp_files)
    ELSE IF faults[2] # ""
    THEN audio_failed(faults[2], log6, stored, temp_files)
    ELSE [response |-> [status |-> 200,
                        id |-> str(inserted_doc._id),
                        title |-> title,
                        body |-> transcribed_text,
                        tags |-> tags_list,
                        mongodb_operation |-> <<mongodb_op>>],
          calls |-> log6,
          documents |-> stored,
          temp_files |-> temp_files]

\* POST /documents/from-audio
create_document_from_audio(form, heard, faults) ==
    LET saved == save_upload(heard)
        result == whisper_transcribe(heard, form.language)
    IN
    IF ~saved.ok
    THEN audio_failed(heard.upload, saved.calls, documents, temp_files + saved.files)
    ELSE IF ~result.ok
    THEN audio_failed("transcription error", saved.calls \o result.calls,
                      documents, temp_files + saved.files)
    ELSE audio_store(form, result,
                     saved.calls \o result.calls \o <<Step("unlink", TRUE, "")>>,
                     faults)

----------------------------------------------------------------------------
(* The generation backend *)

OLLAMA_MODEL == <<"p">>

\* names a GET /api/tags reply may list
ModelNames == {<<"p">>, <<"p", ":", "l">>, <<"p", "3">>, <<"q">>}

\* what the generation backend does during one request:
\*   tags:   outcome of GET /api/tags, models: the names it lists,
\*   gen:    outcome of the generate call (POST /api/generate, or the OpenAI call)
TagsOutcomes == {"ok", "ConnectionError", "Timeout", "http error", "error"}
GenOutcomes == {"ok", "ConnectionError", "Timeout", "RequestException",
                "404 model not found", "500 json error", "502 not json",
                "200 no response field"}
LLMBehaviours ==
    {[tags |-> t, models |-> <<>>, gen |-> "ok"] : t \in TagsOutcomes}
    \cup {[tags |-> "ok", models |-> <<m>>, gen |-> "ok"] : m \in ModelNames}
    \cup {[tags |-> "ok", models |-> <<<<"q">>, <<"p">>>>, gen |-> "ok"]}
    \cup {[tags |-> "ok", models |-> <<<<"p">>>>, gen |-> g] : g \in GenOutcomes}

\* the backend of a request that never calls it
LLMUnused == [tags |-> "ok", models |-> <<>>, gen |-> "ok"]

\* str.startswith(prefix)
startswith(s, prefix) ==
    Len(s) >= Len(prefix) /\ SubSeq(s, 1, Len(prefix)) = prefix

\* mutant: any listed name that begins with the configured name counts
check_ollama_model_prefix(llm) ==
    LET log == <<[op |-> "GET /api/tags", ok |-> llm.tags = "ok", n |-> Len(llm.models),
                  err |-> IF llm.tags = "ok" THEN "" ELSE llm.tags,
                  models |-> llm.models]>>
    IN IF llm.tags = "ok"
          /\ \E i \in 1..Len(llm.models) : startswith(llm.models[i], OLLAMA_MODEL)
       THEN [available |-> TRUE, message |-> "Model available", calls |-> log]
       ELSE [available |-> FALSE, message |-> "Model not found", calls |-> log]

check_ollama_model(llm) ==
    LET log == <<[op |-> "GET /api/tags", ok |-> llm.tags = "ok", n |-> Len(llm.models),
                  err |-> IF llm.tags = "ok" THEN "" ELSE llm.tags,
                  models |-> llm.models]>> IN
    IF llm.tags = "ConnectionError"
    THEN [available |-> FALSE, message |-> "Cannot connect to Ollama", calls |-> log]
    ELSE IF llm.tags = "Timeout"
    THEN [available |-> FALSE, message |-> "Ollama connection timeout", calls |-> log]
    ELSE IF llm.tags = "error"
    THEN [available |-> FALSE, message |-> "Error checking Ollama", calls |-> log]
    ELSE IF llm.tags # "ok"
    THEN [available |-> FALSE, message |-> "Ollama health check failed", calls |-> log]
    ELSE LET available_models == llm.models
             model_found == \E i \in 1..Len(available_models) :
                               \/ available_models[i] = OLLAMA_MODEL
                               \/ startswith(available_models[i], OLLAMA_MODEL \o <<":">>)
         IN IF ~model_found
            THEN [available |-> FALSE, message |-> "Model not found", calls |-> log]
            ELSE [available |-> TRUE, message |-> "Model available", calls |-> log]

default_system_prompt == <<"d">>

\* timeout=(10, int(os.getenv("OLLAMA_TIMEOUT", "360000"))), in seconds; the
\* OpenAI call is made without a timeout argument (<<>>)
ConnectTimeout == 10
OLLAMA_TIMEOUT == 360000

\* call_llm(prompt, context, system_prompt) -> the answer, or an HTTPException
call_llm(prompt, context, system_prompt, llm) ==
    LET system_instruction ==
            IF system_prompt # <<>> THEN system_prompt ELSE default_system_prompt
        sent == [system |-> system_instruction, context |-> context, question |-> prompt]
        entered == <<[op |-> "call_llm", ok |-> TRUE, n |-> 0, err |-> ""]>>
        failure == IF llm.gen = "ok" THEN "" ELSE llm.gen
    IN
    IF LLM_PROVIDER = "openai" /\ openai_client
    THEN LET log == entered \o <<[op |-> "openai chat.completions.create",
                                   ok |-> llm.gen = "ok", n |-> 1, err |-> failure,
                                   prompt |-> sent, timeout |-> <<>>]>>
         IN IF llm.gen = "ok"
            THEN [ok |-> TRUE, answer |-> <<"answer">>, calls |-> log]
            ELSE [ok |-> FALSE, error |-> HTTPException(500, <<"OpenAI API error", failure>>), calls |-> log]
    ELSE IF LLM_PROVIDER = "ollama"
    THEN LET check == check_ollama_model(llm) IN
         IF ~check.available
         THEN [ok |-> FALSE,
               error |-> HTTPException(503, <<"Ollama model not ready", check.message>>),
               calls |-> entered \o check.calls]
         ELSE
         LET log == entered \o check.calls
                    \o <<[op |-> "POST /api/generate", ok |-> llm.gen = "ok", n |-> 1,
                          err |-> failure, prompt |-> sent,
                          timeout |-> <<ConnectTimeout, OLLAMA_TIMEOUT>>]>>
         IN
         IF llm.gen = "404 model not found"
         THEN [ok |-> FALSE, error |-> HTTPException(503, <<"Model not found in Ollama", "">>), calls |-> log]
         ELSE IF llm.gen = "500 json error"
         THEN [ok |-> FALSE, error |-> HTTPException(500, <<"Ollama API error", failure>>), calls |-> log]
         ELSE IF llm.gen = "502 not json"
         THEN [ok |-> FALSE, error |-> HTTPException(502, <<"Ollama error", failure>>), calls |-> log]
         ELSE IF llm.gen = "200 no response field"
         THEN [ok |-> FALSE, error |-> HTTPException(500, <<"Unexpected Ollama response format", "">>), calls |-> log]
         ELSE IF llm.gen = "ConnectionError"
         THEN [ok |-> FALSE, error |-> HTTPException(503, <<"Cannot connect to Ollama", "">>), calls |-> log]
         ELSE IF llm.gen = "Timeout"
         THEN [ok |-> FALSE, error |-> HTTPException(504, <<"Ollama request timeout", "">>), calls |-> log]
         ELSE IF llm.gen = "RequestException"
         THEN [ok |-> FALSE, error |-> HTTPException(500, <<"Ollama request error", failure>>), calls |-> log]
         ELSE [ok |-> TRUE, answer |-> <<"answer">>, calls |-> log]
    ELSE [ok |-> FALSE, error |-> HTTPException(500, <<"No LLM configured", "">>), calls |-> entered]

----------------------------------------------------------------------------
(* GET /health/ollama and GET /health/system.  Of the system report the     *)
(* model keeps what it reads from the store and from the generation backend *)
(* (the rest describes the host: processes, Kubernetes, Ops Manager).       *)

check_ollama_health(llm) ==
    IF LLM_PROVIDER # "ollama"
    THEN [response |-> [status |-> 200, health |-> "not_configured"], calls |-> <<>>]
    ELSE LET check == check_ollama_model(llm)
         IN [response |-> [status |-> 200,
                           health |-> IF check.available THEN "healthy" ELSE "unhealthy",
                           message |-> check.message,
                           model_available |-> check.available],
             calls |-> check.calls]

\* get_mongodb_info(): dbStats of the databases, then the index probe
get_mongodb_info(faults) ==
    LET stats == IF faults[1] # "" THEN Raise(faults[1]) ELSE Ok(documents)
        probe == check_vector_index_exists(faults[2])
    IN IF ~stats.ok
       THEN [info |-> [status |-> "error"], calls |-> <<Call("dbStats", stats)>>]
       ELSE [info |-> [status |-> "connected",
                       total_documents |-> Len(stats.docs),
                       vector_index_exists |-> probe.exists,
                       vector_index_status |-> probe.status],
             calls |-> <<Call("dbStats", stats)>> \o probe.calls]

\* get_ollama_info(): GET /api/version, then GET /api/tags
get_ollama_info(llm) ==
    IF llm.tags \in {"ConnectionError", "Timeout", "error"}
    THEN [status |-> "error", available_models |-> <<>>]
    ELSE [status |-> IF llm.tags = "ok" THEN "healthy" ELSE "unhealthy",
          available_models |-> IF llm.tags = "ok" THEN llm.models ELSE <<>>]

get_system_health(faults, llm) ==
    LET mongodb_info == get_mongodb_info(faults)
    IN [response |-> [status |-> 200,
                      mongodb |-> mongodb_info.info,
                      ollama |-> get_ollama_info(llm)],
        calls |-> mongodb_info.calls]

----------------------------------------------------------------------------
(* POST /chat *)

\* str(idx) for the ranks that occur
Digits == <<"1", "2", "3", "4", "5", "6", "7", "8", "9">>

\* f"Document {idx} (Title: {doc['title']}):\n{doc['body']}\n"
context_part(idx, doc) ==
    <<"Document ", Digits[idx], " (Title: ">> \o doc.title \o <<"):\n">> \o doc.body \o <<"\n">>

\* "\n".join(context_parts)
RECURSIVE join_lines(_)
join_lines(parts) ==
    IF parts = <<>> THEN <<>>
    ELSE IF Len(parts) = 1 THEN parts[1]
    ELSE parts[1] \o <<"\n">> \o join_lines(Tail(parts))

\* mutant: a failed vector query is taken as a query that retrieved nothing
chat_retrieve_lenient(chat_request, faults) ==
    LET max_docs == chat_request.max_context_docs
        query_embedding == encode(chat_request.question)
        probe == check_vector_index_exists(faults[1])
        log1 == <<Encoded>> \o probe.calls
    IN
    IF ~probe.exists
    THEN [ok |-> FALSE,
          error |-> HTTPException(503, <<"MongoDB Vector Search is not available for RAG", probe.status>>),
          calls |-> log1]
    ELSE
    LET pipeline_display == vectorSearchStage(query_vector_sample(query_embedding), max_docs)
        actual_pipeline == vectorSearchStage(query_embedding, max_docs)
        results_cursor == aggregate_vectorSearch(actual_pipeline.queryVector,
                                                 actual_pipeline.numCandidates,
                                                 actual_pipeline.limit, faults[2])
        log2 == log1 \o <<Executed("aggregate $vectorSearch", results_cursor,
                                  actual_pipeline)>>
    IN
    [ok |-> TRUE,
     top_docs |-> results_cursor.docs,
     query_info |-> [aggregate |-> pipeline_display],
     calls |-> log2]

\* Step 1: retrieval by $vectorSearch, or the HTTPException that ends the request
chat_retrieve(chat_request, faults) ==
    LET max_docs == chat_request.max_context_docs
        query_embedding == encode(chat_request.question)
        probe == check_vector_index_exists(faults[1])
        log1 == <<Encoded>> \o probe.calls
    IN
    IF ~probe.exists
    THEN [ok |-> FALSE,
          error |-> HTTPException(503, <<"MongoDB Vector Search is not available for RAG", probe.status>>),
          calls |-> log1]
    ELSE
    LET pipeline_display == vectorSearchStage(query_vector_sample(query_embedding), max_docs)
        actual_pipeline == vectorSearchStage(query_embedding, max_docs)
        results_cursor == aggregate_vectorSearch(actual_pipeline.queryVector,
                                                 actual_pipeline.numCandidates,
                                                 actual_pipeline.limit, faults[2])
        log2 == log1 \o <<Executed("aggregate $vectorSearch", results_cursor,
                                  actual_pipeline)>>
    IN
    IF ~results_cursor.ok
    THEN (IF VectorSearchNotEnabled(results_cursor.err)
          THEN [ok |-> FALSE,
                error |-> HTTPException(503, <<"MongoDB Vector Search is not enabled for RAG", results_cursor.err>>),
                calls |-> log2]
          ELSE [ok |-> FALSE,
                error |-> HTTPException(500, <<"MongoDB Vector Search failed in RAG", results_cursor.err>>),
                calls |-> log2])
    ELSE [ok |-> TRUE,
          top_docs |-> results_cursor.docs,
          query_info |-> [aggregate |-> pipeline_display],
          calls |-> log2]

\* mutant: the context lists the documents from the last retrieved to the first
chat_context_reversed(top_docs) ==
    join_lines([idx \in 1..Len(top_docs) |->
                  context_part(idx, top_docs[Len(top_docs) + 1 - idx])])

\* Step 2: "\n".join of one part per retrieved document
chat_context(top_docs) ==
    join_lines([idx \in 1..Len(top_docs) |-> context_part(idx, top_docs[idx])])

\* Step 4: the response, or the HTTPException call_llm raised
chat_response(chat_request, retrieved, generated) ==
    LET question == chat_request.question
        top_docs == retrieved.top_docs
        sources == [idx \in 1..Len(top_docs) |-> DocumentResponse(top_docs[idx])]
        log == retrieved.calls \o generated.calls
    IN
    IF ~generated.ok
    THEN [response |-> generated.error, calls |-> log]
    ELSE LET model_name == <<LLM_PROVIDER, ": ">>
                           \o (IF LLM_PROVIDER = "ollama" THEN OLLAMA_MODEL
                               ELSE <<"gpt-3.5-turbo">>)
             mongodb_op == [operation |-> "aggregate",
                            query |-> retrieved.query_info,
                            result |-> [count |-> Len(top_docs),
                                        retrieved_documents |-> Len(top_docs),
                                        scores |-> [i \in 1..Len(top_docs) |-> top_docs[i].score]],
                            documents_affected |-> Len(top_docs),
                            index_used |-> "vector_index"]
         IN [response |-> [status |-> 200,
                           question |-> question,
                           answer |-> generated.answer,
                           sources |-> sources,
                           model_used |-> model_name,
                           mongodb_operation |-> <<mongodb_op>>],
             calls |-> log]

\* mutant: a failed generation is attempted a second time
chat_answer_retrying(chat_request, retrieved, llm) ==
    LET first == call_llm(chat_request.question, chat_context(retrieved.top_docs),
                          chat_request.system_prompt, llm)
        second == call_llm(chat_request.question, chat_context(retrieved.top_docs),
                           chat_request.system_prompt, llm)
    IN chat_response(chat_request, retrieved,
                     IF first.ok THEN first
                     ELSE [second EXCEPT !.calls = first.calls \o second.calls])

\* Steps 2 to 4: context, generation, response
chat_answer(chat_request, retrieved, llm) ==
    chat_response(chat_request, retrieved,
                  call_llm(chat_request.question, chat_context(retrieved.top_docs),
                           chat_request.system_prompt, llm))

chat_with_documents(chat_request, faults, llm) ==
    IF strip(chat_request.question) = <<>>
    THEN [response |-> HTTPException(400, "Question is required"), calls |-> <<>>]
    ELSE LET retrieved == chat_retrieve(chat_request, faults)
         IN IF ~retrieved.ok
            THEN [response |-> retrieved.error, calls |-> retrieved.calls]
            ELSE chat_answer(chat_request, retrieved, llm)

----------------------------------------------------------------------------
(* The state machine *)

NoRequest == [endpoint |-> "none"]
NoResponse == [status |-> 0]
Idle == response = NoResponse

Clients == 1..MaxClients
NoTask == [endpoint |-> "none", pc |-> "none", status |-> 0]

\* Module start-up: the collection is whatever the deployment holds (empty
\* here); the search indexes are created if mongot is deployed; the LLM
\* client is built from the environment variables.
Init ==
    /\ documents = <<>>
    /\ temp_files = 0
    /\ searchEnabled \in BOOLEAN
    /\ vectorIndexStatus \in (IF searchEnabled THEN {"none", "BUILDING", "READY"} ELSE {"none"})
    /\ textIndex \in BOOLEAN
    /\ LLM_PROVIDER \in {"ollama", "openai"}
    /\ openai_client \in (IF LLM_PROVIDER = "openai" THEN BOOLEAN ELSE {FALSE})
    /\ request = NoRequest
    /\ response = NoResponse
    /\ calls = <<>>
    /\ loop = 0
    /\ tasks = [c \in Clients |-> NoTask]

SearchDocuments ==
    /\ Idle
    /\ \E q \in Queries, faults \in Faults :
         \* a cursor lost to a network failure may have yielded documents
         \E yielded \in (IF faults[1] = "network timeout" THEN 0..Len(documents) ELSE {0}) :
           LET params == [endpoint |-> "GET /search", q |-> q]
               out == search_documents(params, faults, yielded)
           IN /\ request' = params
              /\ response' = out.response
              /\ calls' = out.calls
    /\ UNCHANGED <<documents, temp_files, env, server>>

SemanticSearch ==
    /\ Idle
    /\ \E q \in Queries, limit \in Limits, strict \in BOOLEAN, faults \in SingleFaults :
         LET params == [endpoint |-> "GET /search/semantic", q |-> q, limit |-> limit,
                        strict |-> strict]
             out == semantic_search(params, faults)
         IN /\ request' = params
            /\ response' = out.response
            /\ calls' = out.calls
    /\ UNCHANGED <<documents, temp_files, env, server>>

GetDocuments ==
    /\ Idle
    /\ \E faults \in Faults1 :
         LET out == get_documents(faults)
         IN /\ request' = [endpoint |-> "GET /documents"]
            /\ response' = out.response
            /\ calls' = out.calls
    /\ UNCHANGED <<documents, temp_files, env, server>>

CreateDocument ==
    /\ Idle
    /\ Len(documents) + temp_files < MaxDocs
    /\ \E document \in DocInputs, faults \in Faults1, encoder \in Encoders :
         LET out == create_document(document, faults, encoder)
         IN /\ request' = [endpoint |-> "POST /documents", document |-> document]
            /\ response' = out.response
            /\ calls' = out.calls
            /\ documents' = out.documents
    /\ UNCHANGED <<temp_files, env, server>>

Chat ==
    /\ Idle
    /\ \E question \in Queries, max_docs \in Limits, system_prompt \in SystemPrompts,
          faults \in SingleFaults :
         LET chat_request == [endpoint |-> "POST /chat", question |-> question,
                              max_context_docs |-> max_docs,
                              system_prompt |-> system_prompt]
             \* the generation backend matters only to a request that reaches it
             reached == strip(question) # <<>> /\ chat_retrieve(chat_request, faults).ok
         IN \E llm \in (IF reached THEN LLMBehaviours ELSE {LLMUnused}) :
              LET out == chat_with_documents(chat_request, faults, llm)
              IN /\ request' = chat_request
                 /\ response' = out.response
                 /\ calls' = out.calls
    /\ UNCHANGED <<documents, temp_files, env, server>>

TranscribeAudio ==
    /\ Idle
    /\ \E heard \in Heard :
         LET out == transcribe_audio(heard)
         IN /\ Len(documents) + out.temp_files <= MaxDocs
            /\ request' = [endpoint |-> "POST /speech-to-text"]
            /\ response' = out.response
            /\ calls' = out.calls
            /\ temp_files' = out.temp_files
    /\ UNCHANGED <<documents, env, server>>

CreateDocumentFromAudio ==
    /\ Idle
    /\ \E form \in AudioForms, heard \in Heard, faults \in SingleFaults :
         LET out == create_document_from_audio(form, heard, faults)
         IN /\ Len(out.documents) + out.temp_files <= MaxDocs
            /\ request' = [endpoint |-> "POST /documents/from-audio", form |-> form]
            /\ response' = out.response
            /\ calls' = out.calls
            /\ documents' = out.documents
            /\ temp_files' = out.temp_files
    /\ UNCHANGED <<env, server>>

CheckOllamaHealth ==
    /\ Idle
    /\ \E llm \in {b \in LLMBehaviours : b.gen = "ok"} :
         LET out == check_ollama_health(llm)
         IN /\ request' = [endpoint |-> "GET /health/ollama"]
            /\ response' = out.response
            /\ calls' = out.calls
    /\ UNCHANGED <<documents, temp_files, env, server>>

GetSystemHealth ==
    /\ Idle
    /\ \E faults \in SingleFaults, llm \in {b \in LLMBehaviours : b.gen = "ok"} :
         LET out == get_system_health(faults, llm)
         IN /\ request' = [endpoint |-> "GET /health/system"]
            /\ response' = out.response
            /\ calls' = out.calls
    /\ UNCHANGED <<documents, temp_files, env, server>>

\* the server sends the response and waits for the next request
SendResponse ==
    /\ ~Idle
    /\ request' = NoRequest
    /\ response' = NoResponse
    /\ calls' = <<>>
    /\ UNCHANGED <<documents, temp_files, env, server>>

\* mongot finishes building the vector index
IndexBuilt ==
    /\ Idle
    /\ vectorIndexStatus = "BUILDING"
    /\ vectorIndexStatus' = "READY"
    /\ UNCHANGED <<documents, temp_files, searchEnabled, textIndex, LLM_PROVIDER,
                   openai_client, request, response, calls, server>>

Next ==
    \/ SearchDocuments
    \/ SemanticSearch
    \/ GetDocuments
    \/ CreateDocument
    \/ Chat
    \/ SendResponse
    \/ IndexBuilt

Spec == Init /\ [][Next]_vars

\* The whole API, audio included, in a deployment with search nodes (the
\* vector index created at start-up is built), a text index and the Ollama
\* provider.
InitDeployed ==
    /\ Init
    /\ searchEnabled
    /\ vectorIndexStatus = "READY"
    /\ textIndex
    /\ LLM_PROVIDER = "ollama"

NextAll ==
    \/ SearchDocuments
    \/ SemanticSearch
    \/ GetDocuments
    \/ CreateDocument
    \/ Chat
    \/ TranscribeAudio
    \/ CreateDocumentFromAudio
    \/ CheckOllamaHealth
    \/ GetSystemHealth
    \/ SendResponse

SpecAll == InitDeployed /\ [][NextAll]_vars

\* A deployment whose collection already holds documents, inserted through
\* POST /documents by earlier runs: more of them than a page of results.
StockInputs == <<[title |-> <<"a">>, body |-> <<"b">>, tags |-> << <<"a">> >>],
                 [title |-> <<"b">>, body |-> <<"a">>, tags |-> <<>>]>>

RECURSIVE Stocked(_)
Stocked(n) ==
    IF n = 0 THEN <<>>
    ELSE LET document == StockInputs[(n % 2) + 1]
             text_for_embedding ==
                 document.title \o <<" ">> \o document.body \o <<" ">> \o join(document.tags)
         IN insert_one(Stocked(n - 1),
                       [title |-> document.title, body |-> document.body,
                        tags |-> document.tags,
                        embedding |-> encode(text_for_embedding)])

InitStocked ==
    /\ documents \in {Stocked(n) : n \in 0..MaxStock}
    /\ temp_files = 0
    /\ searchEnabled \in BOOLEAN
    /\ vectorIndexStatus = (IF searchEnabled THEN "READY" ELSE "none")
    /\ textIndex \in BOOLEAN
    /\ LLM_PROVIDER = "ollama"
    /\ openai_client = FALSE
    /\ request = NoRequest
    /\ response = NoResponse
    /\ calls = <<>>
    /\ loop = 0
    /\ tasks = [c \in Clients |-> NoTask]

NextStocked ==
    \/ SearchDocuments
    \/ GetDocuments
    \/ SendResponse

SpecStocked == InitStocked /\ [][NextStocked]_vars

----------------------------------------------------------------------------
(* The server process: uvicorn.run(app) runs one event loop in one thread.  *)
(* Every handler is an "async def" coroutine that contains no await: once   *)
(* the loop has started it, it runs to its return on the loop's thread, and *)
(* each call it makes on a collaborator (pymongo, requests) is synchronous: *)
(* the thread waits in the call until the collaborator replies.             *)
(* tasks[c].pc: "none", "accepted" (request read, coroutine not started),   *)
(* "querying" / "retrieving" (waiting in a store call), "generating"        *)
(* (waiting in requests.post to the generation backend), "done".            *)

ServedEndpoints == {"GET /search", "POST /chat"}

\* a client sends a request; the server accepts it and creates its task
Accept(c) ==
    /\ tasks[c].pc = "none"
    /\ \E endpoint \in ServedEndpoints :
         tasks' = [tasks EXCEPT ![c] = [endpoint |-> endpoint, pc |-> "accepted",
                                        status |-> 0]]
    /\ UNCHANGED <<documents, temp_files, env, request, response, calls, loop>>

\* the loop, free, starts the coroutine of an accepted task: a blank query is
\* answered 400 at once, any other request enters its first store call
Run(c) ==
    /\ loop = 0
    /\ tasks[c].pc = "accepted"
    /\ \E q \in Queries :
         IF strip(q) = <<>>
         THEN /\ tasks' = [tasks EXCEPT ![c].pc = "done", ![c].status = 400]
              /\ loop' = 0
         ELSE /\ tasks' = [tasks EXCEPT ![c].pc =
                              IF tasks[c].endpoint = "POST /chat" THEN "retrieving"
                              ELSE "querying"]
              /\ loop' = c
    /\ UNCHANGED <<documents, temp_files, env, request, response, calls>>

\* the store replies to the task that waits for it: the search returns its
\* response; the chat goes on to call_llm, or raises its HTTPException
StoreReplies(c) ==
    /\ loop = c
    /\ tasks[c].pc \in {"querying", "retrieving"}
    /\ \E faults \in SingleFaults :
         IF tasks[c].endpoint = "GET /search"
         THEN LET found == (searchEnabled /\ faults[1] = "")
                           \/ (textIndex /\ faults[2] = "")
              IN /\ tasks' = [tasks EXCEPT ![c].pc = "done",
                                           ![c].status = IF found THEN 200 ELSE 500]
                 /\ loop' = 0
         ELSE LET probe == check_vector_index_exists(faults[1])
              IN IF ~probe.exists
                 THEN /\ tasks' = [tasks EXCEPT ![c].pc = "done", ![c].status = 503]
                      /\ loop' = 0
                 ELSE IF faults[2] # ""
                 THEN /\ tasks' = [tasks EXCEPT ![c].pc = "done",
                                                ![c].status =
                                                   IF VectorSearchNotEnabled(faults[2])
                                                   THEN 503 ELSE 500]
                      /\ loop' = 0
                 ELSE /\ tasks' = [tasks EXCEPT ![c].pc = "generating"]
                      /\ loop' = c
    /\ UNCHANGED <<documents, temp_files, env, request, response, calls>>

\* the generation backend replies, or the call fails or times out: call_llm
\* returns the answer or raises, and the coroutine returns
GenerationReplies(c) ==
    /\ loop = c
    /\ tasks[c].pc = "generating"
    /\ \E llm \in LLMBehaviours :
         LET generated == call_llm(<<"a">>, <<>>, <<>>, llm)
         IN tasks' = [tasks EXCEPT ![c].pc = "done",
                                   ![c].status = IF generated.ok THEN 200
                                                 ELSE generated.error.status]
    /\ loop' = 0
    /\ UNCHANGED <<documents, temp_files, env, request, response, calls>>

\* the response of a finished task is written to its connection
Respond(c) ==
    /\ tasks[c].pc = "done"
    /\ tasks' = [tasks EXCEPT ![c] = NoTask]
    /\ UNCHANGED <<documents, temp_files, env, request, response, calls, loop>>

InitServer == Init

NextServer ==
    \E c \in Clients :
        \/ Accept(c)
        \/ Run(c)
        \/ StoreReplies(c)
        \/ GenerationReplies(c)
        \/ Respond(c)

SpecServer == InitServer /\ [][NextServer]_vars

----------------------------------------------------------------------------
(* Vocabulary of the properties: what the last request was, what it called, *)
(* how it ended.                                                            *)

Endpoint == request.endpoint

\* empty or whitespace only
IsBlank(text) == \A i \in 1..Len(text) : text[i] = " "

\* the query text of a retrieval request
QueryOf(req) == IF req.endpoint = "POST /chat" THEN req.question ELSE req.q

RetrievalEndpoints == {"GET /search", "GET /search/semantic", "POST /chat"}

Called(op) == \E i \in 1..Len(calls) : calls[i].op = op
CalledOk(op) == \E i \in 1..Len(calls) : calls[i].op = op /\ calls[i].ok
CalledFailed(op) == \E i \in 1..Len(calls) : calls[i].op = op /\ ~calls[i].ok

GenerationOps == {"call_llm", "GET /api/tags", "POST /api/generate",
                  "openai chat.completions.create"}
GenerationInvoked == \E i \in 1..Len(calls) : calls[i].op \in GenerationOps

\* the capability probe could not list the indexes, or listed no "vector_index"
VectorIndexAbsent ==
    \/ CalledFailed("list_search_indexes")
    \/ CalledOk("list_search_indexes") /\ vectorIndexStatus = "none"

\* the store answered the native vector query with no document
RetrievedNothing ==
    \E i \in 1..Len(calls) :
        calls[i].op = "aggregate $vectorSearch" /\ calls[i].ok /\ calls[i].n = 0

----------------------------------------------------------------------------
(* C1: RAG short-circuit.  Whenever the vector retrieval step of chat       *)
(* returns zero documents, chat returns a fixed answer with sources == []   *)
(* and the generation gateway is never invoked during that request.         *)
(* The handler has no such branch: it calls call_llm with an empty context. *)
C1_ShortCircuit ==
    (Endpoint = "POST /chat" /\ RetrievedNothing)
        => /\ response.status = 200
           /\ response.sources = <<>>
           /\ ~GenerationInvoked

(* C2: blank query rejection.  A query that is empty or whitespace only is  *)
(* rejected with HTTP 400 by /search, /search/semantic and /chat, and the   *)
(* request contacts no collaborator at all.                                 *)
C2_BlankQueryRejected ==
    (Endpoint \in RetrievalEndpoints /\ IsBlank(QueryOf(request)))
        => /\ response.status = 400
           /\ calls = <<>>

C2_Witness ==
    /\ Endpoint = "POST /chat"
    /\ request.question = <<" ", " ">>
    /\ response.status = 400

(* C3: strict semantic search.  When the probe reports the vector index     *)
(* absent, or the probe itself fails, /search/semantic answers HTTP 503 and *)
(* the $vectorSearch aggregation is never issued in that request.           *)
C3_StrictSemantic ==
    (Endpoint = "GET /search/semantic" /\ VectorIndexAbsent)
        => /\ response.status = 503
           /\ ~Called("aggregate $vectorSearch")

C3_Witness ==
    /\ Endpoint = "GET /search/semantic"
    /\ CalledFailed("list_search_indexes")
    /\ searchEnabled /\ vectorIndexStatus = "READY"
    /\ response.status = 503

C5_StrictRetrieval ==
    Endpoint = "POST /chat"
        => /\ (VectorIndexAbsent \/ CalledFailed("aggregate $vectorSearch"))
                => /\ response.status \in {503, 500}
                   /\ ~GenerationInvoked
                   /\ \A i \in 1..Len(calls) :
                        calls[i].op \in {"encode", "list_search_indexes",
                                         "aggregate $vectorSearch"}
           /\ \A j \in 1..Len(calls) :
                calls[j].op \in GenerationOps
                    => \E i \in 1..(j - 1) :
                          calls[i].op = "aggregate $vectorSearch" /\ calls[i].ok

C5_Witness ==
    /\ Endpoint = "POST /chat"
    /\ CalledFailed("aggregate $vectorSearch")
    /\ response.status = 500
    /\ ~GenerationInvoked

(* C6: telemetry singularity.  Every list-returning endpoint attaches       *)
(* exactly one mongodb_operation to the envelope of its response, whatever  *)
(* the number of documents, and none to the items.  GET /documents returns  *)
(* a bare list: the operation rides on the first item, or is lost when the  *)
(* list is empty.                                                           *)
C6_TelemetrySingularity ==
    (Endpoint \in {"GET /documents", "GET /search", "GET /search/semantic"}
     /\ response.status = 200)
        => LET items == IF Endpoint = "GET /documents" THEN response.list
                        ELSE response.results
               envelope == IF "mongodb_operation" \in DOMAIN response
                           THEN Len(response.mongodb_operation) ELSE 0
           IN /\ envelope = 1
              /\ \A i \in 1..Len(items) : items[i].mongodb_operation = <<>>

(* C7: empty corpus.  With the vector index present, no stored document     *)
(* and no collaborator failing, /search/semantic answers 200 with an empty  *)
(* result list and total 0.                                                 *)
C7_EmptyCorpus ==
    (/\ Endpoint = "GET /search/semantic"
     /\ ~IsBlank(request.q)
     /\ searchEnabled /\ vectorIndexStatus # "none"
     /\ documents = <<>>
     /\ \A i \in 1..Len(calls) : calls[i].ok)
        => /\ response.status = 200
           /\ response.results = <<>>
           /\ response.total = 0

C7_Witness ==
    /\ Endpoint = "GET /search/semantic"
    /\ vectorIndexStatus = "READY"
    /\ documents = <<>>
    /\ CalledOk("aggregate $vectorSearch")
    /\ response.status = 200
    /\ response.total = 0

\* the $search aggregation failed because the capability is absent
SearchCapabilityAbsent ==
    /\ Len(calls) >= 1
    /\ calls[1].op = "aggregate $search"
    /\ ~calls[1].ok
    /\ calls[1].err = "SearchNotEnabled"

SearchResponseFields ==
    {"status", "query", "results", "total", "mongodb_query", "search_type",
     "index_used", "mongodb_operation"}

\* the response of /search is a SearchResponse produced by the $text strategy
FallbackResponse ==
    /\ response.status = 200
    /\ DOMAIN response = SearchResponseFields
    /\ response.query = request.q
    /\ response.search_type = "text_fallback"
    /\ Len(response.mongodb_operation) = 1
    /\ response.mongodb_operation[1].operation = "find"
    /\ response.mongodb_operation[1].result.search_type = "text_fallback"
    /\ response.mongodb_query = [find |-> "$text", q |-> request.q]

(* C8 as stated: when $search is absent, /search issues the query again as  *)
(* a $text find and returns a successful response of the same shape marked  *)
(* text_fallback / find.                                                    *)
C8_FallbackSucceeds ==
    (Endpoint = "GET /search" /\ SearchCapabilityAbsent)
        => /\ Len(calls) = 2 /\ calls[2].op = "find $text"
           /\ FallbackResponse

(* C8 amended: when $search is absent, /search issues the same query again  *)
(* as a $text find; if that find completes, the response is a successful    *)
(* SearchResponse marked text_fallback / find; if the find fails too (no    *)
(* text index, store failure), the request ends with HTTP 500.              *)
C8_FallbackOrError ==
    (Endpoint = "GET /search" /\ SearchCapabilityAbsent)
        => /\ Len(calls) = 2 /\ calls[2].op = "find $text"
           /\ IF calls[2].ok THEN FallbackResponse ELSE response.status = 500

C8_Witness ==
    /\ Endpoint = "GET /search"
    /\ ~searchEnabled
    /\ SearchCapabilityAbsent
    /\ response.status = 200
    /\ response.search_type = "text_fallback"
    /\ response.total = 2

(* C9: failure propagation.  In /search only the absence of the full-text   *)
(* capability triggers the fallback; any other failure of the primary query *)
(* ends the request with an error and no $text find is issued.  The handler *)
(* catches every exception, so a network failure falls back as well.        *)
C9_OnlyAbsenceFallsBack ==
    (/\ Endpoint = "GET /search"
     /\ Len(calls) >= 1
     /\ calls[1].op = "aggregate $search"
     /\ ~calls[1].ok
     /\ calls[1].err # "SearchNotEnabled")
        => /\ response.status >= 400
           /\ ~Called("find $text")

\* the store query of the strategy that an empty successful response names
ProducingQuery ==
    IF Endpoint = "GET /search"
    THEN (IF response.search_type = "full_text_search" THEN "aggregate $search"
          ELSE "find $text")
    ELSE "aggregate $vectorSearch"

StoreQueries == {"aggregate $search", "find $text", "aggregate $vectorSearch"}

\* position of the last store query of the request, 0 if there is none
LastStoreQuery ==
    LET at == {i \in 1..Len(calls) : calls[i].op \in StoreQueries}
    IN IF at = {} THEN 0 ELSE CHOOSE i \in at : \A j \in at : j <= i

(* C10: no silent masking.  In /search, /search/semantic and /chat a        *)
(* request whose last store query failed never ends in success, and a       *)
(* successful response with zero documents is produced only when the store  *)
(* query of the strategy it names completed without error and matched       *)
(* nothing.                                                                 *)
C10_NoSilentMasking ==
    Endpoint \in RetrievalEndpoints
        => /\ (LastStoreQuery # 0 /\ ~calls[LastStoreQuery].ok) => response.status >= 400
           /\ CalledFailed("list_search_indexes") => response.status >= 400
           /\ (/\ response.status = 200
               /\ (IF Endpoint = "POST /chat" THEN response.sources ELSE response.results) = <<>>)
                => /\ LastStoreQuery # 0
                   /\ calls[LastStoreQuery].op = ProducingQuery
                   /\ calls[LastStoreQuery].ok
                   /\ calls[LastStoreQuery].n = 0

C10_Witness ==
    /\ Endpoint = "GET /search"
    /\ CalledFailed("aggregate $search")
    /\ CalledFailed("find $text")
    /\ textIndex
    /\ response.status = 500

----------------------------------------------------------------------------
\* the capability probe listed "vector_index" in state BUILDING
VectorIndexBuilding ==
    CalledOk("list_search_indexes") /\ vectorIndexStatus = "BUILDING"

(* C11: Building is treated as Absent.  When the probe finds the vector     *)
(* index in state BUILDING, /search/semantic and /chat do not issue the     *)
(* $vectorSearch aggregation and answer HTTP 503 as for an absent index,    *)
(* with the BUILDING status in the error detail.  The probe returns         *)
(* (True, status) for any listed index, so the handlers query it.           *)
C11_BuildingAsAbsent ==
    (Endpoint \in {"GET /search/semantic", "POST /chat"} /\ VectorIndexBuilding)
        => /\ ~Called("aggregate $vectorSearch")
           /\ response.status = 503
           /\ response.detail[2] = "BUILDING"

\* the error message of the failed capability probe of the request
ProbeError ==
    LET at == {i \in 1..Len(calls) : calls[i].op = "list_search_indexes" /\ ~calls[i].ok}
    IN calls[CHOOSE i \in at : TRUE].err

\* the response that reports the vector index as absent
AbsentIndexResponse ==
    /\ response.status = 503
    /\ response.detail[1] \in {"MongoDB Vector Search is not available",
                               "MongoDB Vector Search is not available for RAG"}

(* C12: probe failure classification.  A probe failure that means "search   *)
(* capability not supported" collapses to Absent (HTTP 503, status          *)
(* SearchNotEnabled); any other probe error, such as a lost connection,     *)
(* reaches the caller as a store failure and is not reported as an absent   *)
(* index.  The probe catches every exception and returns (False, None).     *)
C12_ProbeClassification ==
    (Endpoint \in {"GET /search/semantic", "POST /chat"}
     /\ CalledFailed("list_search_indexes"))
        => IF ProbeError = "SearchNotEnabled"
           THEN AbsentIndexResponse /\ response.detail[2] = "SearchNotEnabled"
           ELSE response.status >= 400 /\ ~AbsentIndexResponse

----------------------------------------------------------------------------
\* the fields of a returned document: the display fields and the telemetry slot
DisplayFields == {"id", "title", "body", "tags", "mongodb_operation"}

\* the documents a successful response returns
ReturnedDocuments ==
    IF Endpoint \in {"GET /search", "GET /search/semantic"}
    THEN {response.results[i] : i \in 1..Len(response.results)}
    ELSE IF Endpoint = "GET /documents"
    THEN {response.list[i] : i \in 1..Len(response.list)}
    ELSE IF Endpoint = "POST /chat"
    THEN {response.sources[i] : i \in 1..Len(response.sources)}
    ELSE IF Endpoint \in {"POST /documents", "POST /documents/from-audio"}
    THEN {[f \in DOMAIN response \ {"status"} |-> response[f]]}
    ELSE {}

\* the vectors a successful response shows in its telemetry
ShownVectors ==
    IF Endpoint = "GET /search/semantic"
    THEN {response.mongodb_query.aggregate.queryVector,
          response.mongodb_operation[1].query.aggregate.queryVector}
    ELSE IF Endpoint = "POST /chat"
    THEN {response.mongodb_operation[1].query.aggregate.queryVector}
    ELSE IF Endpoint = "POST /documents"
    THEN {response.mongodb_operation[1].query.insertOne.embedding}
    ELSE {}

\* components of a shown vector: five of the embedding and the note
SampleSize == 5

(* C13: display-only documents.  In every successful response each returned *)
(* document carries only id, title, body and tags (and its telemetry slot), *)
(* and every vector shown in the telemetry is a sample of at most 5         *)
(* components and a note, shorter than the embedding: no embedding is       *)
(* returned in full.                                                        *)
C13_DisplayOnly ==
    response.status = 200
        => /\ \A doc \in ReturnedDocuments : DOMAIN doc \subseteq DisplayFields
           /\ \A v \in ShownVectors : Len(v) <= SampleSize + 1 /\ Len(v) < EmbDim

C13_Witness ==
    /\ Endpoint = "GET /search"
    /\ response.status = 200
    /\ response.search_type = "text_fallback"
    /\ Len(response.results) = 2
    /\ \E i \in 1..Len(documents) : "source" \in DOMAIN documents[i]

----------------------------------------------------------------------------
\* the documents of a successful retrieval response, in response order
RetrievedDocuments ==
    IF Endpoint = "POST /chat" THEN response.sources ELSE response.results

\* their scores, as the telemetry of the response records them
RetrievedScores ==
    IF Endpoint = "GET /search" THEN response.mongodb_operation[1].result.search_scores
    ELSE IF Endpoint = "GET /search/semantic"
    THEN response.mongodb_operation[1].result.vector_search_scores
    ELSE response.mongodb_operation[1].result.scores

(* C15: result ordering.  The documents of every successful retrieval       *)
(* response (lexical primary, lexical fallback, semantic, chat sources)     *)
(* are in non-increasing score order, and documents of equal score are in   *)
(* store (insertion) order.                                                 *)
C15_ResultOrdering ==
    (Endpoint \in RetrievalEndpoints /\ response.status = 200)
        => /\ Len(RetrievedScores) = Len(RetrievedDocuments)
           /\ \A i, j \in 1..Len(RetrievedDocuments) :
                i < j => /\ RetrievedScores[i] >= RetrievedScores[j]
                         /\ RetrievedScores[i] = RetrievedScores[j]
                              => RetrievedDocuments[i].id[2] < RetrievedDocuments[j].id[2]

C15_Witness ==
    /\ Endpoint = "GET /search/semantic"
    /\ response.status = 200
    /\ Len(response.results) = 2
    /\ RetrievedScores[1] > RetrievedScores[2]
    /\ response.results[1].id[2] > response.results[2].id[2]

\* what went wrong with the generation backend during the request
GenerationUnreachable ==
    \E i \in 1..Len(calls) : calls[i].op \in GenerationOps /\ calls[i].err = "ConnectionError"
GenerationTimedOut ==
    \E i \in 1..Len(calls) : calls[i].op \in GenerationOps /\ calls[i].err = "Timeout"
GenerationModelLacking ==
    \/ \E i \in 1..Len(calls) :
          calls[i].op \in GenerationOps /\ calls[i].err = "404 model not found"
    \/ /\ LLM_PROVIDER = "ollama"
       /\ CalledOk("GET /api/tags")
       /\ ~Called("POST /api/generate")

\* the typed error of a failed response: its status and the fixed text of its detail
ErrorType == <<response.status, response.detail[1]>>

GenerationUnavailable == <<503, "Cannot connect to Ollama">>
ModelMissing == <<503, "Model not found in Ollama">>
Timeout == <<504, "Ollama request timeout">>

(* C16: generation failures are surfaced distinctly.  A chat request whose  *)
(* generation backend cannot be reached, lacks the configured model or      *)
(* times out ends in the typed error of that problem (Unavailable,          *)
(* ModelMissing, Timeout: three different errors), whether the model        *)
(* pre-check or the generate call detects it.  The pre-check reports all    *)
(* three as 503 "Ollama model not ready", the OpenAI branch as 500.         *)
C16_DistinctGenerationErrors ==
    Endpoint = "POST /chat"
        => /\ GenerationUnreachable => ErrorType = GenerationUnavailable
           /\ GenerationModelLacking => ErrorType = ModelMissing
           /\ GenerationTimedOut => ErrorType = Timeout

----------------------------------------------------------------------------
\* the backend operations a request may issue
BackendOps ==
    {"encode", "list_search_indexes", "aggregate $search", "find $text",
     "aggregate $vectorSearch", "find", "insert_one",
     "GET /api/tags", "POST /api/generate", "openai chat.completions.create"}

GenerateOps == {"POST /api/generate", "openai chat.completions.create"}

\* number of times the request issued the operation
Issued(op) == Cardinality({i \in 1..Len(calls) : calls[i].op = op})

(* C17: no automatic retry.  Within one request every backend operation is  *)
(* issued at most once (one embed, one capability probe, one native vector  *)
(* query, one generate call), and a failed generate call is the last thing  *)
(* the request does: its error is the response.                             *)
C17_NoRetry ==
    /\ \A op \in BackendOps : Issued(op) <= 1
    /\ \A i \in 1..Len(calls) :
         (calls[i].op \in GenerateOps /\ ~calls[i].ok)
            => /\ i = Len(calls)
               /\ response.status >= 400

C17_Witness ==
    /\ Endpoint = "POST /chat"
    /\ Issued("encode") = 1
    /\ Issued("list_search_indexes") = 1
    /\ Issued("aggregate $vectorSearch") = 1
    /\ Issued("POST /api/generate") = 1
    /\ CalledFailed("POST /api/generate")
    /\ response.status = 504

----------------------------------------------------------------------------
(* C18: bounded generation wait.  Every generate call is made with an       *)
(* explicit read timeout distinct from the connection timeout, and a chat   *)
(* request whose backend does not reply within it ends with the Timeout     *)
(* error, HTTP 504, whatever the provider.  The OpenAI call passes no       *)
(* timeout and its failure is answered 500.                                 *)
C18_BoundedGeneration ==
    Endpoint = "POST /chat"
        => \A i \in 1..Len(calls) :
              calls[i].op \in GenerateOps
                 => /\ Len(calls[i].timeout) = 2
                    /\ calls[i].timeout[1] # calls[i].timeout[2]
                    /\ calls[i].err = "Timeout" => response.status = 504

(* C19: telemetry result count.  In every successful retrieval response the *)
(* telemetry's documents_affected and result.count equal the number of      *)
(* documents the response returns (and total, for the two searches).        *)
C19_ResultCount ==
    (Endpoint \in RetrievalEndpoints /\ response.status = 200)
        => /\ response.mongodb_operation[1].documents_affected = Len(RetrievedDocuments)
           /\ response.mongodb_operation[1].result.count = Len(RetrievedDocuments)
           /\ Endpoint # "POST /chat" => response.total = Len(RetrievedDocuments)

C19_Witness ==
    /\ Endpoint = "GET /search/semantic"
    /\ response.status = 200
    /\ Len(documents) = 2
    /\ request.limit = 1
    /\ response.mongodb_operation[1].documents_affected = 1
    /\ Len(response.results) = 1

----------------------------------------------------------------------------
IngestEndpoints == {"POST /documents", "POST /documents/from-audio"}

\* every document of the collection s is in t, same place, same content
Kept(s, t) == Len(s) <= Len(t) /\ SubSeq(t, 1, Len(s)) = s

(* C20: documents are write-once.  Every step of the API keeps every stored *)
(* document, with its id and content; the collection changes only in a step *)
(* of one of the two ingest operations, which adds a document; lexical      *)
(* search, semantic search, chat, listing, transcription and health leave   *)
(* it as it is, whether they succeed or fail.                               *)
C20_WriteOnce ==
    [][/\ Kept(documents, documents')
       /\ documents' # documents
            => /\ request'.endpoint \in IngestEndpoints
               /\ Len(documents') = Len(documents) + 1]_vars

C20_Witness ==
    /\ Endpoint = "POST /chat"
    /\ response.status = 500
    /\ Len(documents) = 2
    /\ "source" \in DOMAIN documents[1]
    /\ "source" \notin DOMAIN documents[2]

----------------------------------------------------------------------------
\* the number of results a vector retrieval request asks for
Requested == IF Endpoint = "POST /chat" THEN request.max_context_docs ELSE request.limit

OverFetch == 10     \* numCandidates = k * 10

\* the pipelines a successful vector retrieval response reports
ReportedPipelines ==
    {response.mongodb_operation[1].query.aggregate}
    \cup (IF Endpoint = "GET /search/semantic" THEN {response.mongodb_query.aggregate}
          ELSE {})

(* C21: over-fetch factor.  Whenever /search/semantic or /chat issues the   *)
(* $vectorSearch aggregation for k requested results, the executed pipeline *)
(* has limit = k and numCandidates = k * 10, and the pipeline reported in   *)
(* the telemetry of the response is the executed one with queryVector       *)
(* replaced by its first five components and a note.                        *)
C21_OverFetch ==
    Endpoint \in {"GET /search/semantic", "POST /chat"}
        => \A i \in 1..Len(calls) :
              calls[i].op = "aggregate $vectorSearch"
                 => LET executed == calls[i].pipeline
                        sample == SubSeq(executed.queryVector, 1, SampleSize)
                                  \o <<[remaining |-> Len(executed.queryVector) - SampleSize]>>
                    IN /\ executed.limit = Requested
                       /\ executed.numCandidates = Requested * OverFetch
                       /\ Len(executed.queryVector) = EmbDim
                       /\ response.status = 200
                            => \A reported \in ReportedPipelines :
                                  reported = [executed EXCEPT !.queryVector = sample]

C21_Witness ==
    /\ Endpoint = "POST /chat"
    /\ request.max_context_docs = 2
    /\ response.status = 200
    /\ \E i \in 1..Len(calls) :
          /\ calls[i].op = "aggregate $vectorSearch"
          /\ calls[i].pipeline.numCandidates = 20
          /\ calls[i].pipeline.limit = 2

----------------------------------------------------------------------------
\* the documents the store returned for the vector query of the request, in
\* the order it returned them: the executed pipeline, run again on the store
VectorSearchReturned ==
    LET at == CHOOSE i \in 1..Len(calls) : calls[i].op = "aggregate $vectorSearch"
        executed == calls[at].pipeline
    IN aggregate_vectorSearch(executed.queryVector, executed.numCandidates,
                              executed.limit, "").docs

\* "Document {rank} (Title: {title}):\n{body}\n"
LabeledBlock(rank, doc) ==
    <<"Document ", Digits[rank], " (Title: ">> \o doc.title \o <<"):\n">>
        \o doc.body \o <<"\n">>

\* the blocks of the first n documents, a blank line between two blocks
RECURSIVE RankedContext(_, _)
RankedContext(docs, n) ==
    IF n = 0 THEN <<>>
    ELSE IF n = 1 THEN LabeledBlock(1, docs[1])
    ELSE RankedContext(docs, n - 1) \o <<"\n">> \o LabeledBlock(n, docs[n])

(* C22: RAG context and provenance follow rank.  For the documents d1..dn   *)
(* the vector query returned, in that order, the context passed to the      *)
(* generate call is the n labeled blocks "Document i (Title: title_i):\n    *)
(* body_i\n" for i = 1..n in that order, separated by single blank lines,   *)
(* and the i-th entry of the sources of the answer is d_i.                  *)
C22_ContextFollowsRank ==
    (Endpoint = "POST /chat" /\ CalledOk("aggregate $vectorSearch"))
        => LET d == VectorSearchReturned IN
           /\ \A i \in 1..Len(calls) :
                 calls[i].op \in GenerateOps
                    => calls[i].prompt.context = RankedContext(d, Len(d))
           /\ response.status = 200
                => /\ Len(response.sources) = Len(d)
                   /\ \A i \in 1..Len(d) :
                         /\ response.sources[i].id = str(d[i]._id)
                         /\ response.sources[i].title = d[i].title
                         /\ response.sources[i].body = d[i].body
                         /\ response.sources[i].tags = d[i].tags

C22_Witness ==
    /\ Endpoint = "POST /chat"
    /\ response.status = 200
    /\ Len(response.sources) = 2
    /\ response.sources[1].id = str(2)
    /\ response.sources[1].title # response.sources[2].title
    /\ CalledOk("POST /api/generate")

----------------------------------------------------------------------------
\* the documents a store query returns for the request's text when nothing fails
SearchMatches == aggregate_search(request.q, "", 0).docs
TextMatches == find_text(request.q, "").docs

\* the response lists exactly these documents, in this order
Lists(docs) ==
    /\ Len(response.results) = Len(docs)
    /\ \A i \in 1..Len(docs) : response.results[i].id = str(docs[i]._id)

\* the two strategies of /search, each with its labels, its query and its results
PrimaryStrategy ==
    /\ response.search_type = "full_text_search"
    /\ response.mongodb_operation[1].operation = "aggregate"
    /\ response.mongodb_operation[1].result.search_type = "full_text_search"
    /\ response.index_used = "text_search_index"
    /\ response.mongodb_operation[1].index_used = "text_search_index"
    /\ Len(calls) = 1 /\ calls[1].op = "aggregate $search" /\ calls[1].ok
    /\ Lists(SearchMatches)

FallbackStrategy ==
    /\ response.search_type = "text_fallback"
    /\ response.mongodb_operation[1].operation = "find"
    /\ response.mongodb_operation[1].result.search_type = "text_fallback"
    /\ response.index_used = "title_text_body_text_tags_text"
    /\ response.mongodb_operation[1].index_used = "title_text_body_text_tags_text"
    /\ Len(calls) = 2
    /\ calls[1].op = "aggregate $search" /\ ~calls[1].ok
    /\ calls[2].op = "find $text" /\ calls[2].ok
    /\ Lists(TextMatches)

(* C23: lexical response consistency.  Every successful /search response is *)
(* produced by exactly one strategy: full_text_search / aggregate / search  *)
(* index with the results of $search only, or text_fallback / find / text   *)
(* index with the results of $text only; documents read from a primary      *)
(* cursor that then fails are discarded, never mixed with the fallback's.   *)
C23_OneStrategy ==
    (Endpoint = "GET /search" /\ response.status = 200)
        => /\ PrimaryStrategy \/ FallbackStrategy
           /\ ~(PrimaryStrategy /\ FallbackStrategy)

C23_Witness ==
    /\ Endpoint = "GET /search"
    /\ response.status = 200
    /\ calls[1].op = "aggregate $search" /\ ~calls[1].ok /\ calls[1].n = 1
    /\ response.search_type = "text_fallback"
    /\ Len(response.results) = 2

----------------------------------------------------------------------------
(* C24: lexical result bound.  Every successful /search response contains   *)
(* at most 10 documents, whether the primary $search strategy or the $text  *)
(* fallback produced it.  Only the $search pipeline has a $limit stage: the *)
(* fallback returns every document the $text query matches.                 *)
C24_ResultBound ==
    (Endpoint = "GET /search" /\ response.status = 200)
        => Len(response.results) <= SearchLimit

----------------------------------------------------------------------------
\* f"{title} {body} {' '.join(tags)}"
EmbeddedText(document) ==
    document.title \o <<" ">> \o document.body \o <<" ">> \o join(document.tags)

(* C25: ingest ordering.  In POST /documents the embedding is computed      *)
(* before the insert; a successful call issues exactly one insert, which    *)
(* adds one document carrying the full embedding of its text, and returns   *)
(* the id the store assigned to it; if the embedding call fails, no insert  *)
(* is issued and the collection is unchanged.                               *)
C25_IngestOrdering ==
    [][request'.endpoint = "POST /documents"
         => /\ calls'[1].op = "encode"
            /\ \A i \in 1..Len(calls') :
                  calls'[i].op = "insert_one" => i = 2 /\ calls'[1].ok
            /\ response'.status = 200
                 => /\ calls'[Len(calls')].op = "insert_one" /\ calls'[Len(calls')].ok
                    /\ Len(documents') = Len(documents) + 1
                    /\ Kept(documents, documents')
                    /\ LET stored == documents'[Len(documents')]
                       IN /\ \A i \in 1..Len(documents) : documents[i]._id # stored._id
                          /\ response'.id = str(stored._id)
                          /\ stored.title = request'.document.title
                          /\ stored.body = request'.document.body
                          /\ stored.tags = request'.document.tags
                          /\ Len(stored.embedding) = EmbDim
                          /\ stored.embedding = encode(EmbeddedText(request'.document))
            /\ response'.status # 200 => documents' = documents
            /\ ~calls'[1].ok => Len(calls') = 1 /\ response'.status >= 400]_vars

C25_Witness ==
    /\ Endpoint = "POST /documents"
    /\ response.status = 200
    /\ Len(documents) = 2
    /\ response.id = str(2)
    /\ Len(calls) = 2 /\ calls[1].op = "encode" /\ calls[2].op = "insert_one"

----------------------------------------------------------------------------
(* C26: audio ingest is all-or-nothing.  Whenever POST /documents/from-audio *)
(* responds with an error, the collection is what it was before the request; *)
(* a request adds a document only if it answers 200 with the id of that      *)
(* document.  The handler reads the document back after the insert: if that  *)
(* find_one fails, the answer is 500 and the inserted document stays.        *)
C26_AudioAllOrNothing ==
    [][request'.endpoint = "POST /documents/from-audio"
         => /\ response'.status # 200 => documents' = documents
            /\ documents' # documents
                 => /\ response'.status = 200
                    /\ response'.id = str(documents'[Len(documents')]._id)]_vars

----------------------------------------------------------------------------
AudioEndpoints == {"POST /speech-to-text", "POST /documents/from-audio"}

(* C27: temp-file cleanup.  When POST /speech-to-text or POST               *)
(* /documents/from-audio finishes, on the success path and on every error   *)
(* path, the temporary audio file the request created has been deleted: the *)
(* request leaves as many temporary files as it found.  The file is created *)
(* with delete=False and unlinked only after transcribe has returned.       *)
C27_TempFileCleanup ==
    [][request'.endpoint \in AudioEndpoints => temp_files' = temp_files]_vars

----------------------------------------------------------------------------
\* the listed name is the configured model, or the configured model and a tag
NamesModel(name) ==
    \/ name = OLLAMA_MODEL
    \/ /\ Len(name) > Len(OLLAMA_MODEL)
       /\ \A k \in 1..Len(OLLAMA_MODEL) : name[k] = OLLAMA_MODEL[k]
       /\ name[Len(OLLAMA_MODEL) + 1] = ":"

(* C28: generation pre-check ordering.  Under the ollama provider call_llm  *)
(* lists the models (GET /api/tags) before every generate call; the model   *)
(* counts as available iff the listing succeeded and some listed name       *)
(* equals OLLAMA_MODEL or starts with OLLAMA_MODEL followed by ":"; when    *)
(* the check fails, the generate request is never sent and the answer is    *)
(* HTTP 503; when it passes, the generate request is the next call.         *)
C28_PreCheckOrdering ==
    (Endpoint = "POST /chat" /\ LLM_PROVIDER = "ollama")
        => /\ \A j \in 1..Len(calls) :
                 calls[j].op = "call_llm"
                    => j < Len(calls) /\ calls[j + 1].op = "GET /api/tags"
           /\ \A j \in 1..Len(calls) :
                 calls[j].op = "POST /api/generate"
                    => j > 1 /\ calls[j - 1].op = "GET /api/tags"
           /\ \A i \in 1..Len(calls) :
                 calls[i].op = "GET /api/tags"
                    => IF calls[i].ok
                          /\ \E k \in 1..Len(calls[i].models) : NamesModel(calls[i].models[k])
                       THEN i < Len(calls) /\ calls[i + 1].op = "POST /api/generate"
                       ELSE /\ i = Len(calls)
                            /\ response.status = 503

C28_Witness ==
    /\ Endpoint = "POST /chat"
    /\ LLM_PROVIDER = "ollama"
    /\ \E i \in 1..Len(calls) :
          /\ calls[i].op = "GET /api/tags" /\ calls[i].ok
          /\ calls[i].models = << <<"p", "3">> >>
    /\ ~Called("POST /api/generate")
    /\ response.status = 503

----------------------------------------------------------------------------
\* the task waits for the reply of the generation backend
WaitingOnGeneration(c) == tasks[c].pc = "generating"

(* C29: concurrent progress.  While a chat request waits on a call to the   *)
(* generation backend, a request another client has sent can be started     *)
(* and served; no request holds, for the duration of its backend call, a    *)
(* resource that every other request needs.  The handlers are coroutines    *)
(* that call requests.post and pymongo synchronously: the waiting request   *)
(* holds the thread of the event loop, and no other request starts.         *)
C29_ConcurrentProgress ==
    \A c \in Clients :
        WaitingOnGeneration(c)
            => \A d \in Clients \ {c} : tasks[d].pc = "accepted" => ENABLED Run(d)

----------------------------------------------------------------------------
(* C30: document listing.  GET /documents returns at most 10 documents: the *)
(* most recently inserted ones, in descending insertion (_id) order; for a  *)
(* store of fewer than 10 documents it returns all of them.                 *)
C30_Listing ==
    (Endpoint = "GET /documents" /\ response.status = 200)
        => LET n == Len(documents)
               listed == response.list
           IN /\ Len(listed) <= ListLimit
              /\ n < ListLimit => Len(listed) = n
              /\ n >= ListLimit => Len(listed) = ListLimit
              /\ \A i \in 1..Len(listed) :
                    /\ listed[i].id = str(documents[n + 1 - i]._id)
                    /\ listed[i].title = documents[n + 1 - i].title
                    /\ listed[i].body = documents[n + 1 - i].body
                    /\ listed[i].tags = documents[n + 1 - i].tags
              /\ \A i, j \in 1..Len(listed) : i < j => listed[i].id[2] > listed[j].id[2]

C30_Witness ==
    /\ Endpoint = "GET /documents"
    /\ response.status = 200
    /\ Len(documents) = ListLimit + 1
    /\ Len(response.list) = ListLimit
    /\ response.list[1].id = str(ListLimit + 1)
    /\ response.list[ListLimit].id = str(2)

====
